---------------------------- MODULE Spec2Model ----------------------------
(***************************************************************************)
(* Contact list application (rinesabislimi28/ContactList).                 *)
(*                                                                         *)
(* The repository holds three iterations of the application:               *)
(*   V1  src/unnamed/part_001 lines 1028-1425: a read-only list with       *)
(*       search and alphabetical sections;                                 *)
(*   V2  src/unnamed/part_001 lines 1-1027: in-memory add, edit and        *)
(*       delete, with a pinned "my profile" record;                        *)
(*   V3  src/App.js: home and detail screens, contacts persisted with      *)
(*       AsyncStorage under the key '@contact_list_v3'.                    *)
(*                                                                         *)
(* Strings are sequences of UTF-16 code units (natural numbers), so that   *)
(* charAt, toUpperCase, toLowerCase, includes, localeCompare and the       *)
(* default Array.prototype.sort order are computed, not assumed.           *)
(***************************************************************************)
EXTENDS Integers, Sequences, FiniteSets, Bags, TLC

VARIABLES
    pOp,        \* pure-function harness: the function applied, "none" before
    pIn,        \* pure-function harness: the contact list given to it
    pQuery,     \* pure-function harness: the search text given to the filters
    pOut,       \* pure-function harness: what the function returned
    variant,    \* which iteration of the application runs: "v3" or "v2"
    storage,    \* V3: the AsyncStorage entry under '@contact_list_v3'
    persistedBy,\* V3 (history): which mutation wrote storage last ("create",
                \* "delete" or "update"), with its record, and which write
                \* of syncStorage failed last
    inflight,   \* V3: the AsyncStorage calls issued and not yet settled
    contacts,   \* V3 HomeScreen.contacts; V2 MainApp.allContacts
    form,       \* V3 HomeScreen.form; V2 the fields of ContactFormModal
    modalVisible,   \* V3 HomeScreen.modalVisible; V2 MainApp.isModalVisible
    screen,     \* V3: the focused screen, "home" or "detail"
    dContact,   \* V3 DetailScreen: route.params.contact
    editForm,   \* V3 DetailScreen.editForm
    isEditModalVisible, \* V3 DetailScreen.isEditModalVisible
    alert,      \* the dialog on display ([kind |-> "none"] when there is none)
    clock,      \* the last reading of Date.now()
    mutations,  \* (history) how many creates and deletes (V2: and saves) were done
    listOrigin, \* (history) what set contacts last: "load" (loadData) or
                \* "memory" (the initial state, a create or a delete)
    myProfile,  \* V2 MainApp.myProfile
    editingItem,    \* V2 MainApp.editingItem, the initialData of the form modal
    isEditingMyProfile  \* V2 MainApp.isEditingMyProfile

pureVars == <<pOp, pIn, pQuery, pOut>>

\* The state only V2 has.
v2Vars == <<myProfile, editingItem, isEditingMyProfile>>

\* The state only V3 has.
v3Vars == <<storage, persistedBy, inflight, screen, dContact, editForm,
            isEditModalVisible, listOrigin>>

appVars == <<variant, storage, persistedBy, inflight, contacts, form, modalVisible,
             screen, dContact, editForm, isEditModalVisible, alert, clock, mutations,
             listOrigin, myProfile, editingItem, isEditingMyProfile>>

vars == <<pOp, pIn, pQuery, pOut, variant, storage, persistedBy, inflight, contacts,
          form, modalVisible, screen, dContact, editForm, isEditModalVisible, alert,
          clock, mutations, listOrigin, myProfile, editingItem, isEditingMyProfile>>

----------------------------------------------------------------------------
(* Bounds *)

\* Longest contact list given to the grouper and the filters.
MaxLen == 3

\* Longest contact list the application holds: Save is not pressed on a
\* list that long.
MaxContacts == 2

\* Most AsyncStorage calls in flight at once.
MaxInflight == 2

\* Most milliseconds the clock advances during a run.
MaxTicks == 1

\* Most creates, deletes and updates the user asks for during a run.
MaxMutations == 2

----------------------------------------------------------------------------
(* JavaScript strings *)

\* The value of a property that a record does not have (undefined): no
\* string, as -1 is no code unit.
Absent == <<-1>>

\* String.prototype.toUpperCase on one code unit, Basic Latin and Latin-1
\* letters (a-z, and U+00E0..U+00FE except the division sign U+00F7).
UpperChar(c) ==
    IF c \in 97..122 THEN c - 32
    ELSE IF c \in 224..254 /\ c # 247 THEN c - 32
    ELSE c

\* String.prototype.toLowerCase on one code unit (A-Z, and U+00C0..U+00DE
\* except the multiplication sign U+00D7).
LowerChar(c) ==
    IF c \in 65..90 THEN c + 32
    ELSE IF c \in 192..222 /\ c # 215 THEN c + 32
    ELSE c

toUpperCase(s) == [i \in DOMAIN s |-> UpperChar(s[i])]

toLowerCase(s) == [i \in DOMAIN s |-> LowerChar(s[i])]

\* s.charAt(0): the first code unit as a string, "" when s is empty.
charAt0(s) == IF Len(s) = 0 THEN <<>> ELSE <<s[1]>>

\* s.includes(q): q occurs in s as a contiguous substring.
includes(s, q) ==
    \E i \in 0..(Len(s) - Len(q)) : SubSeq(s, i + 1, i + Len(q)) = q

\* Three-way lexicographic comparison of two sequences of numbers: -1, 0, 1.
\* A proper prefix comes first.
RECURSIVE CmpSeq(_, _)
CmpSeq(x, y) ==
    IF x = <<>> /\ y = <<>> THEN 0
    ELSE IF x = <<>> THEN -1
    ELSE IF y = <<>> THEN 1
    ELSE IF x[1] < y[1] THEN -1
    ELSE IF x[1] > y[1] THEN 1
    ELSE CmpSeq(Tail(x), Tail(y))

\* The order of the default Array.prototype.sort() on strings: by UTF-16
\* code units.
CodeUnitCompare(a, b) == CmpSeq(a, b)

\* The base letter of a Latin-1 letter, as a lower-case Basic Latin code
\* unit: case and diacritic removed (U+00C0..U+00C5 -> a, U+00C7 -> c,
\* U+00C8..U+00CB -> e, U+00CC..U+00CF -> i, U+00D1 -> n, U+00D2..U+00D6
\* -> o, U+00D9..U+00DC -> u, U+00DD -> y).
BaseLetter(c) ==
    LET l == LowerChar(c) IN
    IF l \in 224..229 THEN 97
    ELSE IF l = 231 THEN 99
    ELSE IF l \in 232..235 THEN 101
    ELSE IF l \in 236..239 THEN 105
    ELSE IF l = 241 THEN 110
    ELSE IF l \in 242..246 THEN 111
    ELSE IF l \in 249..252 THEN 117
    ELSE IF l = 253 THEN 121
    ELSE l

\* Collation weights of one code unit: primary (the base letter), secondary
\* (0 plain, 1 with a diacritic), tertiary (0 lower case, 1 upper case).
PrimaryWeight(c) == BaseLetter(c)
SecondaryWeight(c) == IF BaseLetter(c) = LowerChar(c) THEN 0 ELSE 1
TertiaryWeight(c) == IF LowerChar(c) = c THEN 0 ELSE 1

\* a.localeCompare(b) with the default collation (Unicode Collation
\* Algorithm, root order) on letters: base letters decide first, then
\* diacritics, then case (lower case first).  Returns -1, 0 or 1.
localeCompare(a, b) ==
    LET p == CmpSeq([i \in DOMAIN a |-> PrimaryWeight(a[i])],
                    [i \in DOMAIN b |-> PrimaryWeight(b[i])])
        s == CmpSeq([i \in DOMAIN a |-> SecondaryWeight(a[i])],
                    [i \in DOMAIN b |-> SecondaryWeight(b[i])])
        t == CmpSeq([i \in DOMAIN a |-> TertiaryWeight(a[i])],
                    [i \in DOMAIN b |-> TertiaryWeight(b[i])])
    IN  IF p # 0 THEN p ELSE IF s # 0 THEN s ELSE t

----------------------------------------------------------------------------
(* Sorting *)

\* x put into the sorted list s after every element that does not come
\* after it: one step of a stable sort by name.
InsertByName(s, x) ==
    LET k == Cardinality({i \in DOMAIN s : localeCompare(s[i].name, x.name) <= 0})
    IN  SubSeq(s, 1, k) \o <<x>> \o SubSeq(s, k + 1, Len(s))

\* [...data].sort((a, b) => a.name.localeCompare(b.name)): a stable sort of
\* a copy of the list by name.
RECURSIVE sortByName(_)
sortByName(data) ==
    IF data = <<>> THEN <<>>
    ELSE InsertByName(sortByName(SubSeq(data, 1, Len(data) - 1)), data[Len(data)])

\* keys.sort() with no comparator: the strings of the set K in ascending
\* code-unit order.
RECURSIVE sortKeys(_)
sortKeys(K) ==
    IF K = {} THEN <<>>
    ELSE LET m == CHOOSE k \in K : \A j \in K : CodeUnitCompare(k, j) <= 0
         IN  <<m>> \o sortKeys(K \ {m})

\* Insertion order of the keys of a Map filled while walking the list: each
\* key at its first occurrence.
RECURSIVE insertionOrder(_, _)
insertionOrder(keys, seen) ==
    IF keys = <<>> THEN <<>>
    ELSE IF keys[1] \in seen THEN insertionOrder(Tail(keys), seen)
    ELSE <<keys[1]>> \o insertionOrder(Tail(keys), seen \cup {keys[1]})

----------------------------------------------------------------------------
(* Alphabetical grouper *)

\* '#': the section of contacts whose name has no first character.
HashKey == <<35>>

\* contact.name?.charAt(0).toUpperCase() || '#'
letterV3(contact) ==
    IF contact.name = Absent THEN HashKey
    ELSE IF toUpperCase(charAt0(contact.name)) = <<>> THEN HashKey
    ELSE toUpperCase(charAt0(contact.name))

\* contact.name.charAt(0).toUpperCase()
firstLetter(contact) == toUpperCase(charAt0(contact.name))

\* V3 grouper: sort by name, bucket by first letter, sections in the order
\* of Object.keys(map).sort().
groupContactsAlphabetically(data) ==
    IF data = <<>> THEN <<>>
    ELSE LET sorted == sortByName(data)
             keys == sortKeys({letterV3(sorted[i]) : i \in DOMAIN sorted})
         IN  [k \in DOMAIN keys |->
                [title |-> keys[k],
                 data  |-> SelectSeq(sorted, LAMBDA c : letterV3(c) = keys[k])]]

\* V2 grouper: sort by name, bucket in a Map by first letter, sections in the
\* order of Array.from(groupedMap.keys()).sort().
groupContactsByLetter(contactArray) ==
    LET sortedContacts == sortByName(contactArray)
        keys == sortKeys({firstLetter(sortedContacts[i]) : i \in DOMAIN sortedContacts})
    IN  [k \in DOMAIN keys |->
           [title |-> keys[k],
            data  |-> SelectSeq(sortedContacts, LAMBDA c : firstLetter(c) = keys[k])]]

\* V1 grouper: as V2, but the sections follow the Map's insertion order (the
\* keys are not sorted).
groupContactsByLetterV1(contactArray) ==
    LET sortedContacts == sortByName(contactArray)
        keys == insertionOrder([i \in DOMAIN sortedContacts |-> firstLetter(sortedContacts[i])], {})
    IN  [k \in DOMAIN keys |->
           [title |-> keys[k],
            data  |-> SelectSeq(sortedContacts, LAMBDA c : firstLetter(c) = keys[k])]]

----------------------------------------------------------------------------
(* Search filter *)

\* x?.toLowerCase().includes(q.toLowerCase()): false for an absent x.
optIncludes(x, q) ==
    IF x = Absent THEN FALSE ELSE includes(toLowerCase(x), toLowerCase(q))

\* Mutant of filtered: the search text is not case folded.
filtered_rawQuery(list, search) ==
    SelectSeq(list, LAMBDA c :
        \/ (c.name # Absent /\ includes(toLowerCase(c.name), search))
        \/ (c.email # Absent /\ includes(toLowerCase(c.email), search)))

\* V3 filter: name or email contains the search text, case folded.
filtered(list, search) ==
    SelectSeq(list, LAMBDA c : optIncludes(c.name, search) \/ optIncludes(c.email, search))

\* V2 filter: name contains the search text, case folded.
filteredContacts(allContacts, searchText) ==
    SelectSeq(allContacts, LAMBDA contact :
        includes(toLowerCase(contact.name), toLowerCase(searchText)))

\* V1 filter: name contains the search text, case folded.
filteredContactsV1(list, searchText) ==
    SelectSeq(list, LAMBDA contact :
        includes(toLowerCase(contact.name), toLowerCase(searchText)))

----------------------------------------------------------------------------
(* Contact records and their serialized form *)

ContactFields == {"id", "name", "phone", "email", "avatar"}

\* No contact (the detail screen is not mounted).
NoContact == [f \in ContactFields |-> Absent]

\* Number.prototype.toString of a natural number: its decimal digits.
RECURSIVE DecimalString(_)
DecimalString(n) ==
    IF n < 10 THEN <<48 + n>>
    ELSE DecimalString(n \div 10) \o <<48 + (n % 10)>>

\* JSON.stringify of a contact list: each record keeps the properties it
\* has, an undefined one is left out.
stringify(list) ==
    [kind  |-> "json",
     items |-> [i \in DOMAIN list |->
                  [f \in {g \in DOMAIN list[i] : list[i][g] # Absent} |-> list[i][f]]]]

\* JSON.parse of a stored array: a property that the text does not give is
\* undefined on the record.
parse(saved) ==
    [i \in DOMAIN saved.items |->
        [f \in ContactFields |->
            IF f \in DOMAIN saved.items[i] THEN saved.items[i][f] ELSE Absent]]

\* getItem resolves to null: nothing is stored under the key.
NoKey == [kind |-> "null", items |-> <<>>]

\* A stored text that JSON.parse rejects.
Corrupt == [kind |-> "corrupt", items |-> <<>>]

\* The bundled default dataset (data/contact_sample_data.json): one contact,
\* "Al", with no email.
initialContactsData ==
    << [id |-> <<49>>, name |-> <<65, 108>>, phone |-> <<49>>,
        email |-> Absent, avatar |-> <<97, 118>>] >>

\* What the user types into the inputs of the add modal, which open empty:
\* the name "Bo", the phone "1"; the email input is left alone.
TypedText ==
    [name |-> {<<66, 111>>}, phone |-> {<<49>>}, email |-> {}]

\* What the user types into the inputs of the edit modal, which open with
\* the fields of the contact: the name is cleared; the phone and email inputs
\* are left alone.
TypedEdit ==
    [name |-> {<<>>}, phone |-> {}, email |-> {}]

\* {name: '', phone: '', email: ''}
EmptyForm == [name |-> <<>>, phone |-> <<>>, email |-> <<>>]

\* The first reading of Date.now(), in milliseconds: far above the ids of
\* the bundled dataset.
Epoch == 1000

\* (history) No write has reached storage and none has failed.
NothingPersisted ==
    [by |-> "none", rec |-> NoContact, failed |-> [by |-> "none", rec |-> NoContact]]

NoAlert == [kind |-> "none", id |-> Absent, list |-> <<>>]

\* The place of the first record with the id in the list, 0 when there is
\* none (findIndex(c => c.id === id) + 1).
findIndex(list, id) ==
    IF \E i \in DOMAIN list : list[i].id = id
    THEN CHOOSE i \in DOMAIN list :
            list[i].id = id /\ \A j \in DOMAIN list : list[j].id = id => i <= j
    ELSE 0

\* list.filter(c => c.id !== id)
withoutId(list, id) == SelectSeq(list, LAMBDA c : c.id # id)

----------------------------------------------------------------------------
(* V3 (src/App.js): HomeScreen *)

IsV3 == variant = "v3"

\* The home screen takes touches: it is focused and nothing covers it.
HomeIdle ==
    /\ IsV3
    /\ screen = "home"
    /\ ~modalVisible
    /\ alert.kind = "none"

\* inflight is a bag: two calls with the same arguments are two calls.
CanIssue == BagCardinality(inflight) < MaxInflight

Issue(ops, op) == ops (+) SetToBag({op})

Settle(ops, op) == ops (-) SetToBag({op})

\* loadData up to its await: AsyncStorage.getItem is called.
LoadOp ==
    [k |-> "load", val |-> NoKey, by |-> "load", rec |-> NoContact,
     id |-> Absent, draft |-> NoContact, live |-> FALSE]

\* Mutant of SyncOp: setItem is given the contacts of the render, which
\* setContacts has not changed yet, not the new list.
SyncOp_staleList(list, by, rec) ==
    [k |-> "sync", val |-> stringify(contacts), by |-> by, rec |-> rec,
     id |-> Absent, draft |-> NoContact, live |-> FALSE]

\* syncStorage(list) after setContacts: AsyncStorage.setItem is called with
\* the serialized list.  by and rec record the mutation that asked for it.
SyncOp(list, by, rec) ==
    [k |-> "sync", val |-> stringify(list), by |-> by, rec |-> rec,
     id |-> Absent, draft |-> NoContact, live |-> FALSE]

\* loadData after its await: the in-memory list becomes the parsed snapshot,
\* or the bundled dataset when nothing is stored; JSON.parse throws on a
\* text it cannot parse and the promise of loadData is rejected, unhandled.
LoadDone(op) ==
    /\ IsV3
    /\ BagIn(op, inflight) /\ op.k = "load"
    /\ inflight' = Settle(inflight, op)
    /\ IF storage.kind = "json"
       THEN contacts' = parse(storage) /\ listOrigin' = "load"
       ELSE IF storage.kind = "null"
       THEN contacts' = initialContactsData /\ listOrigin' = "load"
       ELSE UNCHANGED <<contacts, listOrigin>>
    /\ UNCHANGED <<pureVars, v2Vars, variant, storage, persistedBy, form, modalVisible, screen, dContact,
                   editForm, isEditModalVisible, alert, clock,
                   mutations>>

\* AsyncStorage.getItem rejects inside loadData: the promise of loadData is
\* rejected, unhandled; the list is not set.
LoadFail(op) ==
    /\ IsV3
    /\ BagIn(op, inflight) /\ op.k = "load"
    /\ inflight' = Settle(inflight, op)
    /\ UNCHANGED <<pureVars, v2Vars, variant, storage, persistedBy, contacts, form, modalVisible, screen,
                   dContact, editForm, isEditModalVisible, alert, clock, mutations, listOrigin>>

\* Mutant of SyncDone: a value already stored under the key is kept, the
\* later write is dropped.
SyncDone_firstWins(op) ==
    /\ IsV3
    /\ BagIn(op, inflight) /\ op.k = "sync"
    /\ inflight' = Settle(inflight, op)
    /\ storage' = IF storage.kind = "json" THEN storage ELSE op.val
    /\ persistedBy' = [persistedBy EXCEPT !.by = op.by, !.rec = op.rec]
    /\ UNCHANGED <<pureVars, v2Vars, variant, contacts, form, modalVisible, screen, dContact,
                   editForm, isEditModalVisible, alert, clock, mutations, listOrigin>>

\* The setItem of syncStorage completes: the entry holds the list it was
\* given.
SyncDone(op) ==
    /\ IsV3
    /\ BagIn(op, inflight) /\ op.k = "sync"
    /\ inflight' = Settle(inflight, op)
    /\ storage' = op.val
    /\ persistedBy' = [persistedBy EXCEPT !.by = op.by, !.rec = op.rec]
    /\ UNCHANGED <<pureVars, v2Vars, variant, contacts, form, modalVisible, screen, dContact, editForm,
                   isEditModalVisible, alert, clock, mutations, listOrigin>>

\* The setItem of syncStorage rejects: nothing is stored, nothing in memory
\* changes.
SyncFail(op) ==
    /\ IsV3
    /\ BagIn(op, inflight) /\ op.k = "sync"
    /\ inflight' = Settle(inflight, op)
    /\ persistedBy' = [persistedBy EXCEPT !.failed = [by |-> op.by, rec |-> op.rec]]
    /\ UNCHANGED <<pureVars, v2Vars, variant, storage, contacts, form, modalVisible, screen,
                   dContact, editForm, isEditModalVisible, alert, clock, mutations, listOrigin>>

\* The floating button: setModalVisible(true).
OpenAddModal ==
    /\ HomeIdle
    /\ modalVisible' = TRUE
    /\ UNCHANGED <<pureVars, v2Vars, variant, storage, persistedBy, inflight, contacts, form, screen,
                   dContact, editForm, isEditModalVisible, alert, clock, mutations, listOrigin>>

\* onChangeText of an input of the add modal: setForm({...form, [field]: t}).
TypeForm(field, t) ==
    /\ IsV3
    /\ modalVisible /\ alert.kind = "none"
    /\ form' = [form EXCEPT ![field] = t]
    /\ UNCHANGED <<pureVars, v2Vars, variant, storage, persistedBy, inflight, contacts, modalVisible, screen,
                   dContact, editForm, isEditModalVisible, alert, clock, mutations, listOrigin>>

\* Cancel of the add modal: setModalVisible(false).
CancelAddModal ==
    /\ IsV3
    /\ modalVisible /\ alert.kind = "none"
    /\ modalVisible' = FALSE
    /\ UNCHANGED <<pureVars, v2Vars, variant, storage, persistedBy, inflight, contacts, form, screen,
                   dContact, editForm, isEditModalVisible, alert, clock, mutations, listOrigin>>

\* Mutant of formInvalid: only the name is required.
formInvalid_nameOnly(f) == f.name = <<>>

\* if(!form.name || !form.phone): a required field is empty.
formInvalid(f) == f.name = <<>> \/ f.phone = <<>>

\* The placeholder avatar of a new contact:
\* `https://ui-avatars.com/api/?name=${form.name}&...`
uiAvatar(name) == <<117, 105, 63>> \o name

\* The record the Save handler builds at clock reading now.
newC(f, now) ==
    [id |-> DecimalString(now), name |-> f.name, phone |-> f.phone, email |-> f.email,
     avatar |-> uiAvatar(f.name)]

\* Save of the add modal with a required field empty: an alert, nothing else.
SaveInvalid ==
    /\ IsV3
    /\ modalVisible /\ alert.kind = "none"
    /\ formInvalid(form)
    /\ alert' = [NoAlert EXCEPT !.kind = "validationError"]
    /\ UNCHANGED <<pureVars, v2Vars, variant, storage, persistedBy, inflight, contacts, form, modalVisible,
                   screen, dContact, editForm, isEditModalVisible, clock, mutations, listOrigin>>

\* Save of the add modal with name and phone filled: the new record is put
\* first, the list is stored, the modal closes.  Date.now() reads now.
SaveCreate(now) ==
    /\ IsV3
    /\ modalVisible /\ alert.kind = "none"
    /\ ~formInvalid(form)
    /\ Len(contacts) < MaxContacts /\ CanIssue
    /\ now >= clock /\ now <= Epoch + MaxTicks
    /\ clock' = now
    /\ contacts' = <<newC(form, now)>> \o contacts
    /\ inflight' = Issue(inflight, SyncOp(<<newC(form, now)>> \o contacts, "create", newC(form, now)))
    /\ modalVisible' = FALSE
    /\ mutations < MaxMutations /\ mutations' = mutations + 1
    /\ listOrigin' = "memory"
    /\ UNCHANGED <<pureVars, v2Vars, variant, storage, persistedBy, form, screen, dContact, editForm,
                   isEditModalVisible, alert>>

\* OK on the validation alert.
DismissAlert ==
    /\ alert.kind \in {"validationError", "success"}
    /\ alert' = NoAlert
    /\ UNCHANGED <<pureVars, v2Vars, variant, storage, persistedBy, inflight, contacts, form, modalVisible,
                   screen, dContact, editForm, isEditModalVisible, clock, mutations, listOrigin>>

\* The trash button behind a swiped row: deleteContact(id) shows the
\* confirmation; its Delete button keeps the list of this render.
SwipeDelete(i) ==
    /\ HomeIdle
    /\ i \in DOMAIN contacts
    /\ alert' = [kind |-> "deleteConfirm", id |-> contacts[i].id, list |-> contacts]
    /\ UNCHANGED <<pureVars, v2Vars, variant, storage, persistedBy, inflight, contacts, form, modalVisible,
                   screen, dContact, editForm, isEditModalVisible, clock, mutations, listOrigin>>

\* Cancel on the delete confirmation.
CancelDelete ==
    /\ IsV3
    /\ alert.kind = "deleteConfirm"
    /\ alert' = NoAlert
    /\ UNCHANGED <<pureVars, v2Vars, variant, storage, persistedBy, inflight, contacts, form, modalVisible,
                   screen, dContact, editForm, isEditModalVisible, clock, mutations, listOrigin>>

\* Delete on the confirmation: syncStorage(contacts.filter(c => c.id !== id))
\* on the list the dialog was built with.
ConfirmDelete ==
    /\ IsV3
    /\ alert.kind = "deleteConfirm"
    /\ CanIssue
    /\ alert' = NoAlert
    /\ contacts' = withoutId(alert.list, alert.id)
    /\ inflight' = Issue(inflight, SyncOp(withoutId(alert.list, alert.id), "delete",
                                         [NoContact EXCEPT !.id = alert.id]))
    /\ mutations < MaxMutations /\ mutations' = mutations + 1
    /\ listOrigin' = "memory"
    /\ UNCHANGED <<pureVars, v2Vars, variant, storage, persistedBy, form, modalVisible, screen, dContact,
                   editForm, isEditModalVisible, clock>>

\* A tap on a row: navigation.navigate('Detail', { contact: item }).
OpenDetail(i) ==
    /\ HomeIdle
    /\ i \in DOMAIN contacts
    /\ screen' = "detail"
    /\ dContact' = contacts[i]
    /\ editForm' = contacts[i]
    /\ isEditModalVisible' = FALSE
    /\ UNCHANGED <<pureVars, v2Vars, variant, storage, persistedBy, inflight, contacts, form, modalVisible,
                   alert, clock, mutations, listOrigin>>

----------------------------------------------------------------------------
(* V3 (src/App.js): DetailScreen *)

\* The detail screen is left: its handleUpdate calls still in flight finish
\* on an unmounted screen.
Orphan(op) == [op EXCEPT !.live = FALSE]

Orphaned(ops) == BagOfAll(Orphan, ops)

\* The back arrow: navigation.goBack().  The home screen regains focus and
\* useFocusEffect calls loadData.
GoBack ==
    /\ IsV3
    /\ screen = "detail" /\ ~isEditModalVisible
    /\ CanIssue
    /\ screen' = "home"
    /\ dContact' = NoContact
    /\ editForm' = NoContact
    /\ inflight' = Issue(Orphaned(inflight), LoadOp)
    /\ UNCHANGED <<pureVars, v2Vars, variant, storage, persistedBy, contacts, form, modalVisible,
                   isEditModalVisible, alert, clock, mutations, listOrigin>>

\* Edit in the header: setEditModalVisible(true).
OpenEdit ==
    /\ IsV3
    /\ screen = "detail" /\ ~isEditModalVisible
    /\ isEditModalVisible' = TRUE
    /\ UNCHANGED <<pureVars, v2Vars, variant, storage, persistedBy, inflight, contacts, form, modalVisible,
                   screen, dContact, editForm, alert, clock, mutations, listOrigin>>

\* onChangeText of an input of the edit modal:
\* setEditForm({...editForm, [field]: t}).
TypeEdit(field, t) ==
    /\ IsV3
    /\ screen = "detail" /\ isEditModalVisible
    /\ editForm' = [editForm EXCEPT ![field] = t]
    /\ UNCHANGED <<pureVars, v2Vars, variant, storage, persistedBy, inflight, contacts, form, modalVisible,
                   screen, dContact, isEditModalVisible, alert, clock, mutations, listOrigin>>

\* Cancel of the edit modal: setEditModalVisible(false).
CancelEdit ==
    /\ IsV3
    /\ screen = "detail" /\ isEditModalVisible
    /\ isEditModalVisible' = FALSE
    /\ UNCHANGED <<pureVars, v2Vars, variant, storage, persistedBy, inflight, contacts, form, modalVisible,
                   screen, dContact, editForm, alert, clock, mutations, listOrigin>>

\* handleUpdate up to its first await: AsyncStorage.getItem is called; the
\* handler keeps contact.id and the editForm of this render.
UpdateOp(id, draft) ==
    [k |-> "updRead", val |-> NoKey, by |-> "update", rec |-> NoContact,
     id |-> id, draft |-> draft, live |-> TRUE]

\* Update of the edit modal.
PressUpdate ==
    /\ IsV3
    /\ screen = "detail" /\ isEditModalVisible
    /\ CanIssue
    /\ inflight' = Issue(inflight, UpdateOp(dContact.id, editForm))
    /\ UNCHANGED <<pureVars, v2Vars, variant, storage, persistedBy, contacts, form, modalVisible, screen,
                   dContact, editForm, isEditModalVisible, alert, clock, mutations, listOrigin>>

\* Mutant of replaceAt: the record is rebuilt from the three inputs of the
\* edit form, { name, phone, email }, without the rest of editForm.
replaceAt_inputsOnly(allContacts, index, draft) ==
    [allContacts EXCEPT ![index] = [draft EXCEPT !.id = Absent, !.avatar = Absent]]

\* allContacts[index] = { ...editForm }
replaceAt(allContacts, index, draft) == [allContacts EXCEPT ![index] = draft]

\* handleUpdate after getItem: JSON.parse(saved), findIndex, and when the
\* record is found the replaced list is given to setItem.  JSON.parse(null)
\* is null and null.findIndex throws; an unparsable text throws too; both
\* are caught and logged.  A record that is not found ends the handler with
\* nothing done.
UpdRead(op) ==
    /\ IsV3
    /\ BagIn(op, inflight) /\ op.k = "updRead"
    /\ IF storage.kind # "json"
       THEN inflight' = Settle(inflight, op)
       ELSE IF findIndex(parse(storage), op.id) = 0
       THEN inflight' = Settle(inflight, op)
       ELSE inflight' = Issue(Settle(inflight, op),
                  [op EXCEPT !.k = "updWrite",
                             !.val = stringify(replaceAt(parse(storage),
                                         findIndex(parse(storage), op.id), op.draft))])
    /\ UNCHANGED <<pureVars, v2Vars, variant, storage, persistedBy, contacts, form, modalVisible, screen,
                   dContact, editForm, isEditModalVisible, alert, clock, mutations, listOrigin>>

\* getItem or setItem rejects inside handleUpdate: caught and logged.
UpdFail(op) ==
    /\ IsV3
    /\ BagIn(op, inflight) /\ op.k \in {"updRead", "updWrite"}
    /\ inflight' = Settle(inflight, op)
    /\ UNCHANGED <<pureVars, v2Vars, variant, storage, persistedBy, contacts, form, modalVisible, screen,
                   dContact, editForm, isEditModalVisible, alert, clock, mutations, listOrigin>>

\* handleUpdate after setItem: the entry holds the replaced list; then
\* setEditModalVisible(false) and navigation.goBack(), which do nothing when
\* the screen has been left already.
UpdWriteDone(op) ==
    /\ IsV3
    /\ BagIn(op, inflight) /\ op.k = "updWrite"
    /\ storage' = op.val
    /\ persistedBy' = [persistedBy EXCEPT
                          !.by = "update", !.rec = op.draft]
    /\ IF op.live
       THEN /\ screen' = "home"
            /\ dContact' = NoContact
            /\ editForm' = NoContact
            /\ isEditModalVisible' = FALSE
            /\ inflight' = Issue(Orphaned(Settle(inflight, op)), LoadOp)
       ELSE /\ inflight' = Settle(inflight, op)
            /\ UNCHANGED <<screen, dContact, editForm, isEditModalVisible>>
    /\ UNCHANGED <<pureVars, v2Vars, variant, contacts, form, modalVisible, alert, clock, mutations, listOrigin>>

----------------------------------------------------------------------------
(* V2 (src/unnamed/part_001 lines 1-1027): MainApp and ContactFormModal *)

IsV2 == variant = "v2"

\* A V2 record carries, besides its properties, the identity of the
\* JavaScript object that holds it (ref): the form modal resets its fields
\* when initialData is another object, not when it is another value.
V2Fields == {"id", "name", "title", "phone", "email", "avatar", "ref"}

\* 'my-profile' (abbreviated to "my").
MyProfileId == <<109, 121>>

\* MY_INITIAL_PROFILE, its strings abbreviated.
MY_INITIAL_PROFILE ==
    [id |-> MyProfileId, name |-> <<82, 105>>, title |-> <<68, 76>>,
     phone |-> <<43, 51>>, email |-> <<114, 64>>, avatar |-> <<117, 61, 109, 121>>,
     status |-> <<65, 118>>, ref |-> 0]

\* useState(null): editingItem before any modal was opened.
NullItem == [f \in V2Fields |-> IF f = "ref" THEN -1 ELSE Absent]

\* The {} of openAddContactModal: a new object at each call.
NewItem == [f \in V2Fields |-> IF f = "ref" THEN -2 ELSE Absent]

\* The bundled dataset as V2 holds it: each record is an object of its own;
\* the records carry no title.
initialContacts ==
    [i \in DOMAIN initialContactsData |->
        [f \in V2Fields |->
            IF f = "ref" THEN i
            ELSE IF f \in DOMAIN initialContactsData[i] THEN initialContactsData[i][f]
            ELSE Absent]]

\* The fields of ContactFormModal before initialData is set.
EmptyFormV2 == [name |-> <<>>, phone |-> <<>>, email |-> <<>>, title |-> <<>>]

\* What the user types into the inputs of the form modal: a name " " or
\* "Bo ", the phone "1", the email "b@", the title "D".
TypedV2 ==
    [name |-> {<<32>>, <<66, 111, 32>>}, phone |-> {<<49>>}, email |-> {<<98, 64>>},
     title |-> {<<68>>}]

\* 'Colleague' (abbreviated to "Co").
Colleague == <<67, 111>>

\* String.prototype.trim: the spaces at both ends are dropped.
RECURSIVE trim(_)
trim(s) ==
    IF Len(s) = 0 THEN s
    ELSE IF s[1] = 32 THEN trim(Tail(s))
    ELSE IF s[Len(s)] = 32 THEN trim(SubSeq(s, 1, Len(s) - 1))
    ELSE s

\* x || ''
orEmpty(x) == IF x = Absent THEN <<>> ELSE x

\* The effect of ContactFormModal on [initialData]: the fields take the
\* values of the item.
resetFields(item) ==
    [name  |-> orEmpty(item.name),
     phone |-> orEmpty(item.phone),
     email |-> orEmpty(item.email),
     title |-> orEmpty(item.title)]

\* The fields of the form modal after setEditingItem(item): the effect runs
\* when item is not the object editingItem held, and {} is always a new
\* object.
fieldsAfter(item) ==
    IF item.ref = NewItem.ref \/ item.ref # editingItem.ref
    THEN resetFields(item)
    ELSE form

\* initialData && initialData.id && initialData.id !== 'my-profile'
isEditMode(initialData) ==
    /\ initialData.ref # NullItem.ref
    /\ initialData.id # Absent /\ initialData.id # <<>>
    /\ initialData.id # MyProfileId

\* The identity of an object made now: one that no object the application
\* still holds has.
RECURSIVE MaxOf(_)
MaxOf(S) ==
    IF S = {} THEN 0
    ELSE LET x == CHOOSE y \in S : TRUE
             m == MaxOf(S \ {x})
         IN IF x > m THEN x ELSE m

freshRef ==
    1 + MaxOf({contacts[i].ref : i \in DOMAIN contacts}
              \cup {myProfile.ref, editingItem.ref})

\* The main screen of V2 takes touches.
HomeIdleV2 ==
    /\ IsV2
    /\ ~modalVisible
    /\ alert.kind = "none"

\* The form modal of V2 takes touches.
FormIdleV2 ==
    /\ IsV2
    /\ modalVisible
    /\ alert.kind = "none"

\* The add button: setEditingItem({}), setIsEditingMyProfile(false),
\* setIsModalVisible(true); the effect of the form then resets its fields.
openAddContactModal ==
    /\ HomeIdleV2
    /\ editingItem' = NewItem
    /\ isEditingMyProfile' = FALSE
    /\ modalVisible' = TRUE
    /\ form' = fieldsAfter(NewItem)
    /\ UNCHANGED <<pureVars, v3Vars, variant, contacts, myProfile, alert, clock, mutations>>

\* Edit behind a swiped row: openEditModal(item).
openEditModal(i) ==
    /\ HomeIdleV2
    /\ i \in DOMAIN contacts
    /\ editingItem' = contacts[i]
    /\ isEditingMyProfile' = FALSE
    /\ modalVisible' = TRUE
    /\ form' = fieldsAfter(contacts[i])
    /\ UNCHANGED <<pureVars, v3Vars, variant, contacts, myProfile, alert, clock, mutations>>

\* A tap on the profile card: openMyProfileEditModal().
openMyProfileEditModal ==
    /\ HomeIdleV2
    /\ editingItem' = myProfile
    /\ isEditingMyProfile' = TRUE
    /\ modalVisible' = TRUE
    /\ form' = fieldsAfter(myProfile)
    /\ UNCHANGED <<pureVars, v3Vars, variant, contacts, myProfile, alert, clock, mutations>>

\* onChangeText of an input of the form modal; the title input is rendered
\* for the profile and for an existing contact only.
setField(field, t) ==
    /\ FormIdleV2
    /\ field = "title" => (isEditingMyProfile \/ isEditMode(editingItem))
    /\ form' = [form EXCEPT ![field] = t]
    /\ UNCHANGED <<pureVars, v2Vars, v3Vars, variant, contacts, modalVisible, alert, clock, mutations>>

\* The close button of the form modal: onClose().
onClose ==
    /\ FormIdleV2
    /\ modalVisible' = FALSE
    /\ UNCHANGED <<pureVars, v2Vars, v3Vars, variant, contacts, form, alert, clock, mutations>>

\* !name.trim() || !phone.trim() || !email.trim()
handleSaveInvalid(f) ==
    trim(f.name) = <<>> \/ trim(f.phone) = <<>> \/ trim(f.email) = <<>>

\* Mutant of updatedData: the object is built without ...initialData, from
\* the fields of the form only.
updatedData_noSpread(initialData, f, isMyProfile, ref) ==
    [initialData EXCEPT !.id = Absent, !.avatar = Absent,
                        !.name = trim(f.name), !.phone = trim(f.phone),
                        !.email = trim(f.email), !.title = trim(f.title), !.ref = ref]

\* updatedData of handleSave: a new object with the properties of
\* initialData, the trimmed name, phone and email, and the title when the
\* profile is edited or a contact is added.
updatedData(initialData, f, isMyProfile, ref) ==
    LET base == [initialData EXCEPT !.name = trim(f.name), !.phone = trim(f.phone),
                                    !.email = trim(f.email), !.ref = ref]
    IN IF isMyProfile
       THEN [base EXCEPT !.title = trim(f.title)]
       ELSE IF ~isEditMode(initialData)
       THEN [base EXCEPT !.title = IF trim(f.title) = <<>> THEN Colleague ELSE trim(f.title)]
       ELSE base

\* `contact-${Date.now()}` (the prefix abbreviated to "c-").
newId(now) == <<99, 45>> \o DecimalString(now)

\* `https://i.pravatar.cc/150?u=${newId}` (the prefix abbreviated to "u=").
pravatar(id) == <<117, 61>> \o id

\* newContact of handleSaveContact.
newContact(updatedItem, now) ==
    [updatedItem EXCEPT !.id = newId(now), !.avatar = pravatar(newId(now))]

\* Save Changes with a required field blank: showAlert('Required Fields'),
\* nothing else.
handleSaveRejected ==
    /\ FormIdleV2
    /\ handleSaveInvalid(form)
    /\ alert' = [NoAlert EXCEPT !.kind = "validationError"]
    /\ UNCHANGED <<pureVars, v2Vars, v3Vars, variant, contacts, form, modalVisible, clock, mutations>>

\* Save Changes on the profile: handleSave, then the first branch of
\* handleSaveContact.
handleSaveMyProfile ==
    /\ FormIdleV2
    /\ ~handleSaveInvalid(form)
    /\ isEditingMyProfile
    /\ mutations < MaxMutations /\ mutations' = mutations + 1
    /\ myProfile' = updatedData(editingItem, form, TRUE, freshRef)
    /\ alert' = [NoAlert EXCEPT !.kind = "success"]
    /\ modalVisible' = FALSE
    /\ UNCHANGED <<pureVars, v3Vars, variant, contacts, form, editingItem, isEditingMyProfile, clock>>

\* prevContacts.map(c => c.id === updatedItem.id ? updatedItem : c)
mapReplace(prevContacts, updatedItem) ==
    [i \in DOMAIN prevContacts |->
        IF prevContacts[i].id = updatedItem.id THEN updatedItem ELSE prevContacts[i]]

\* Save Changes on an existing contact: handleSave, then the second branch
\* of handleSaveContact.
handleSaveUpdate ==
    /\ FormIdleV2
    /\ ~handleSaveInvalid(form)
    /\ ~isEditingMyProfile
    /\ orEmpty(editingItem.id) # <<>>
    /\ mutations < MaxMutations /\ mutations' = mutations + 1
    /\ contacts' = mapReplace(contacts, updatedData(editingItem, form, FALSE, freshRef))
    /\ alert' = [NoAlert EXCEPT !.kind = "success"]
    /\ modalVisible' = FALSE
    /\ UNCHANGED <<pureVars, v2Vars, v3Vars, variant, form, clock>>

\* Save Changes on a new contact: handleSave, then the last branch of
\* handleSaveContact.  Date.now() reads now.
handleSaveCreate(now) ==
    /\ FormIdleV2
    /\ ~handleSaveInvalid(form)
    /\ ~isEditingMyProfile
    /\ orEmpty(editingItem.id) = <<>>
    /\ Len(contacts) < MaxContacts
    /\ now >= clock /\ now <= Epoch + MaxTicks
    /\ clock' = now
    /\ mutations < MaxMutations /\ mutations' = mutations + 1
    /\ contacts' = Append(contacts,
                      newContact(updatedData(editingItem, form, FALSE, freshRef), now))
    /\ alert' = [NoAlert EXCEPT !.kind = "success"]
    /\ modalVisible' = FALSE
    /\ UNCHANGED <<pureVars, v2Vars, v3Vars, variant, form>>

\* Delete behind a swiped row: handleDeleteContact(item.id), unconfirmed.
handleDeleteContact(i) ==
    /\ HomeIdleV2
    /\ i \in DOMAIN contacts
    /\ mutations < MaxMutations /\ mutations' = mutations + 1
    /\ contacts' = withoutId(contacts, contacts[i].id)
    /\ alert' = [NoAlert EXCEPT !.kind = "success"]
    /\ UNCHANGED <<pureVars, v2Vars, v3Vars, variant, form, modalVisible, clock>>

\* Delete Contact in the form modal, rendered for an existing contact:
\* the confirmation is shown.
handleDeleteConfirmation ==
    /\ FormIdleV2
    /\ isEditMode(editingItem) /\ ~isEditingMyProfile
    /\ alert' = [kind |-> "deleteConfirm", id |-> editingItem.id, list |-> <<>>]
    /\ UNCHANGED <<pureVars, v2Vars, v3Vars, variant, contacts, form, modalVisible, clock, mutations>>

\* Cancel on the confirmation of the form modal.
cancelDeleteConfirmation ==
    /\ IsV2
    /\ alert.kind = "deleteConfirm"
    /\ alert' = NoAlert
    /\ UNCHANGED <<pureVars, v2Vars, v3Vars, variant, contacts, form, modalVisible, clock, mutations>>

\* Delete on the confirmation of the form modal: onDelete(initialData.id),
\* then onClose().
confirmDeleteConfirmation ==
    /\ IsV2
    /\ alert.kind = "deleteConfirm"
    /\ mutations < MaxMutations /\ mutations' = mutations + 1
    /\ contacts' = withoutId(contacts, alert.id)
    /\ alert' = [NoAlert EXCEPT !.kind = "success"]
    /\ modalVisible' = FALSE
    /\ UNCHANGED <<pureVars, v2Vars, v3Vars, variant, form, clock>>

----------------------------------------------------------------------------
(* The application *)

\* No pure function is under test.
PureIdle ==
    /\ pOp = "none"
    /\ pIn = <<>>
    /\ pQuery = <<>>
    /\ pOut = <<>>

\* No application runs (a pure function is under test).
AppIdle ==
    /\ variant = "none"
    /\ storage = NoKey
    /\ persistedBy = NothingPersisted
    /\ inflight = EmptyBag
    /\ contacts = <<>>
    /\ form = EmptyForm
    /\ modalVisible = FALSE
    /\ screen = "home"
    /\ dContact = NoContact
    /\ editForm = NoContact
    /\ isEditModalVisible = FALSE
    /\ alert = NoAlert
    /\ clock = Epoch
    /\ mutations = 0
    /\ listOrigin = "memory"
    /\ myProfile = NullItem
    /\ editingItem = NullItem
    /\ isEditingMyProfile = FALSE

\* V3 at launch: HomeScreen is mounted with an empty list and its focus
\* effect has called loadData; the entry under the key is what the device
\* holds (nothing on a first launch, or a text that does not parse).
InitV3 ==
    /\ variant = "v3"
    /\ storage \in {NoKey, Corrupt}
    /\ persistedBy = NothingPersisted
    /\ inflight = SetToBag({LoadOp})
    /\ contacts = <<>>
    /\ form = EmptyForm
    /\ modalVisible = FALSE
    /\ screen = "home"
    /\ dContact = NoContact
    /\ editForm = NoContact
    /\ isEditModalVisible = FALSE
    /\ alert = NoAlert
    /\ clock = Epoch
    /\ mutations = 0
    /\ listOrigin = "memory"
    /\ myProfile = NullItem
    /\ editingItem = NullItem
    /\ isEditingMyProfile = FALSE

\* The steps of V3 in which no AsyncStorage call rejects.
NextV3Resolved ==
    \/ \E op \in BagToSet(inflight) : LoadDone(op)
    \/ \E op \in BagToSet(inflight) : SyncDone(op)
    \/ OpenAddModal
    \/ \E field \in DOMAIN TypedText : \E t \in TypedText[field] : TypeForm(field, t)
    \/ CancelAddModal
    \/ SaveInvalid
    \/ \E now \in Epoch..(Epoch + MaxTicks) : SaveCreate(now)
    \/ \E i \in 1..MaxContacts : SwipeDelete(i)
    \/ CancelDelete
    \/ ConfirmDelete
    \/ \E i \in 1..MaxContacts : OpenDetail(i)
    \/ GoBack
    \/ OpenEdit
    \/ \E field \in DOMAIN TypedEdit : \E t \in TypedEdit[field] : TypeEdit(field, t)
    \/ CancelEdit
    \/ PressUpdate
    \/ \E op \in BagToSet(inflight) : UpdRead(op)
    \/ \E op \in BagToSet(inflight) : UpdWriteDone(op)

\* The steps of V3 in which an AsyncStorage call rejects.
NextV3Rejected ==
    \/ \E op \in BagToSet(inflight) : LoadFail(op)
    \/ \E op \in BagToSet(inflight) : SyncFail(op)
    \/ \E op \in BagToSet(inflight) : UpdFail(op)

NextV3 == NextV3Resolved \/ NextV3Rejected

\* V2 at launch: MainApp is mounted with the bundled dataset and the
\* initial profile; nothing is stored.
InitV2 ==
    /\ variant = "v2"
    /\ storage = NoKey
    /\ persistedBy = NothingPersisted
    /\ inflight = EmptyBag
    /\ contacts = initialContacts
    /\ form = EmptyFormV2
    /\ modalVisible = FALSE
    /\ screen = "home"
    /\ dContact = NoContact
    /\ editForm = NoContact
    /\ isEditModalVisible = FALSE
    /\ alert = NoAlert
    /\ clock = Epoch
    /\ mutations = 0
    /\ listOrigin = "memory"
    /\ myProfile = MY_INITIAL_PROFILE
    /\ editingItem = NullItem
    /\ isEditingMyProfile = FALSE

NextV2 ==
    \/ openAddContactModal
    \/ \E i \in 1..MaxContacts : openEditModal(i)
    \/ openMyProfileEditModal
    \/ \E field \in DOMAIN TypedV2 : \E t \in TypedV2[field] : setField(field, t)
    \/ onClose
    \/ handleSaveRejected
    \/ handleSaveMyProfile
    \/ handleSaveUpdate
    \/ \E now \in Epoch..(Epoch + MaxTicks) : handleSaveCreate(now)
    \/ \E i \in 1..MaxContacts : handleDeleteContact(i)
    \/ handleDeleteConfirmation
    \/ cancelDeleteConfirmation
    \/ confirmDeleteConfirmation

Init == PureIdle /\ (InitV3 \/ InitV2)

\* OK on an alert is the same step in both versions.
Next == NextV3 \/ NextV2 \/ DismissAlert

Spec == Init /\ [][Next]_vars

\* V2 alone, the version with the 'my profile' record.
InitOnlyV2 == PureIdle /\ InitV2

NextOnlyV2 == NextV2 \/ DismissAlert

SpecV2 == InitOnlyV2 /\ [][NextOnlyV2]_vars

\* V3 alone on a storage whose calls all resolve, each of them eventually:
\* a promise of AsyncStorage that is pending does not stay pending forever.
InitOnlyV3 == PureIdle /\ InitV3

NextResolved == NextV3Resolved \/ DismissAlert

Settling ==
    /\ WF_vars(\E op \in BagToSet(inflight) : LoadDone(op))
    /\ WF_vars(\E op \in BagToSet(inflight) : SyncDone(op))
    /\ WF_vars(\E op \in BagToSet(inflight) : UpdRead(op))
    /\ WF_vars(\E op \in BagToSet(inflight) : UpdWriteDone(op))

SpecResolved == InitOnlyV3 /\ [][NextResolved]_vars /\ Settling

----------------------------------------------------------------------------
(* Pure-function harness: inputs *)

\* Names given to the grouper: "", "al", "Bo", "Eb", "Ze", and "Éa", "Éc"
\* (U+00C9, which collates with E and before Z but has a larger code unit
\* than Z).
GroupNames ==
    { <<>>, <<97, 108>>, <<66, 111>>, <<69, 98>>, <<90, 101>>,
      <<201, 97>>, <<201, 99>> }

\* Names, e-mail addresses and search texts given to the filters: names
\* absent, "", "al", "Bo"; e-mails absent, "b@", "AL"; queries "", "b", "AL",
\* "o@".
FilterNames == { Absent, <<>>, <<97, 108>>, <<66, 111>> }
FilterEmails == { Absent, <<98, 64>>, <<65, 76>> }
Queries == { <<>>, <<98>>, <<65, 76>>, <<111, 64>> }

\* Sequences over S of length 0..n.
SeqUpTo(S, n) == UNION {[1..k -> S] : k \in 0..n}

\* A contact of the harness: its id is its place in the list.
HarnessContact(i, name, email) ==
    [id |-> ToString(i), name |-> name, phone |-> <<53, 53, 53>>,
     email |-> email, avatar |-> <<97, 118>>]

GroupInputs ==
    { [i \in DOMAIN names |-> HarnessContact(i, names[i], Absent)] :
        names \in SeqUpTo(GroupNames, MaxLen) }

FilterInputs ==
    { [i \in DOMAIN pairs |-> HarnessContact(i, pairs[i][1], pairs[i][2])] :
        pairs \in SeqUpTo(FilterNames \X FilterEmails, MaxLen) }

----------------------------------------------------------------------------
(* Pure-function harness: one function applied to one input *)

InitGroup ==
    /\ AppIdle
    /\ pOp = "none"
    /\ pIn \in GroupInputs
    /\ pQuery = <<>>
    /\ pOut = <<>>

InitFilter ==
    /\ AppIdle
    /\ pOp = "none"
    /\ pIn \in FilterInputs
    /\ pQuery \in Queries
    /\ pOut = <<>>

ApplyGroupV3 ==
    /\ pOp = "none"
    /\ pOp' = "groupV3"
    /\ pOut' = groupContactsAlphabetically(pIn)
    /\ UNCHANGED <<pIn, pQuery>>
    /\ UNCHANGED appVars

ApplyGroupV2 ==
    /\ pOp = "none"
    /\ pOp' = "groupV2"
    /\ pOut' = groupContactsByLetter(pIn)
    /\ UNCHANGED <<pIn, pQuery>>
    /\ UNCHANGED appVars

ApplyGroupV1 ==
    /\ pOp = "none"
    /\ pOp' = "groupV1"
    /\ pOut' = groupContactsByLetterV1(pIn)
    /\ UNCHANGED <<pIn, pQuery>>
    /\ UNCHANGED appVars

ApplyFilterV3 ==
    /\ pOp = "none"
    /\ pOp' = "filterV3"
    /\ pOut' = filtered(pIn, pQuery)
    /\ UNCHANGED <<pIn, pQuery>>
    /\ UNCHANGED appVars

\* V2 and V1 read contact.name unguarded: they are applied to lists whose
\* records all have a name.
AllNamed(list) == \A i \in DOMAIN list : list[i].name # Absent

ApplyFilterV2 ==
    /\ pOp = "none"
    /\ AllNamed(pIn)
    /\ pOp' = "filterV2"
    /\ pOut' = filteredContacts(pIn, pQuery)
    /\ UNCHANGED <<pIn, pQuery>>
    /\ UNCHANGED appVars

ApplyFilterV1 ==
    /\ pOp = "none"
    /\ AllNamed(pIn)
    /\ pOp' = "filterV1"
    /\ pOut' = filteredContactsV1(pIn, pQuery)
    /\ UNCHANGED <<pIn, pQuery>>
    /\ UNCHANGED appVars

NextGroup == ApplyGroupV3 \/ ApplyGroupV2 \/ ApplyGroupV1

NextFilter == ApplyFilterV3 \/ ApplyFilterV2 \/ ApplyFilterV1

SpecGroup == InitGroup /\ [][NextGroup]_vars

SpecFilter == InitFilter /\ [][NextFilter]_vars

----------------------------------------------------------------------------
(* Claims about the grouper *)

GroupOps == {"groupV1", "groupV2", "groupV3"}

FilterOps == {"filterV1", "filterV2", "filterV3"}

\* The members of the sections, concatenated in section order.
RECURSIVE Flatten(_)
Flatten(sections) ==
    IF sections = <<>> THEN <<>>
    ELSE sections[1].data \o Flatten(Tail(sections))

TitlesAscending(sections) ==
    \A i, j \in DOMAIN sections :
        i < j => CodeUnitCompare(sections[i].title, sections[j].title) < 0

\* C1: for every non-empty contact list, the titles of the sections that
\* group(contacts) returns are pairwise distinct and strictly ascending in
\* the order of the keys (code units), in every variant of the grouper.
C1_TitlesAscendingAllVariants ==
    (pOp \in GroupOps /\ pIn # <<>>) => TitlesAscending(pOut)

\* C2: for every non-empty contact list, the members of the sections, taken
\* in section order, are exactly the input sorted by name with the locale
\* comparison, in every variant of the grouper.
C2_FlattenIsSorted ==
    (pOp \in GroupOps /\ pIn # <<>>) => Flatten(pOut) = sortByName(pIn)

----------------------------------------------------------------------------
(* Claims about the search filter *)

\* Two code units are the same letter up to case.
SameLetter(a, b) == a = b \/ UpperChar(a) = UpperChar(b)

\* q occurs in s as a contiguous run of letters, case ignored; never in an
\* absent s.
ContainsIgnoringCase(s, q) ==
    /\ s # Absent
    /\ \E i \in 0..(Len(s) - Len(q)) :
          \A j \in 1..Len(q) : SameLetter(s[i + j], q[j])

\* C3: filter(contacts, "") returns contacts unchanged in order and content,
\* for every list of records (the name or the email of a record may be
\* absent), in every variant of the filter.
C3_EmptyQueryReturnsAll ==
    (pOp \in FilterOps /\ pQuery = <<>>) => pOut = pIn

\* C4: filter(contacts, q) returns exactly the contacts whose name (or
\* email, in V3, the variant that searches the email) contains q as a
\* case-insensitive substring, in input order, and nothing else.
C4_FilterIsExactMatchSet ==
    /\ pOp = "filterV3" =>
          pOut = SelectSeq(pIn, LAMBDA c :
                    ContainsIgnoringCase(c.name, pQuery) \/ ContainsIgnoringCase(c.email, pQuery))
    /\ pOp \in {"filterV1", "filterV2"} =>
          pOut = SelectSeq(pIn, LAMBDA c : ContainsIgnoringCase(c.name, pQuery))

\* C4 witness: the V3 filter has run with an upper-case query that one record
\* matches by its name in another case, one by its email only, and one not.
C4_Witness ==
    /\ pOp = "filterV3"
    /\ pQuery = <<65, 76>>
    /\ Len(pIn) = 3
    /\ pIn[1].name = <<97, 108>>
    /\ pIn[2].name = <<66, 111>> /\ pIn[2].email = <<65, 76>>
    /\ pIn[3].name = <<66, 111>> /\ pIn[3].email = Absent
    /\ pOut = <<pIn[1], pIn[2]>>

\* C5: a successful create followed by load returns a list that contains
\* the newly created record with all its fields intact: when the last write
\* that reached storage is the one of a create, the list a completing
\* loadData sets holds the record that create built.
C5_CreateThenLoadHasRecord ==
    [][\A op \in BagToSet(inflight) :
          (LoadDone(op) /\ persistedBy.by = "create")
             => \E i \in DOMAIN contacts' : contacts'[i] = persistedBy.rec]_vars

\* C5 witness: the list on screen was set by loadData from the snapshot a
\* create wrote, and holds the created record "Bo" next to the bundled one.
C5_Witness ==
    /\ IsV3
    /\ listOrigin = "load"
    /\ storage.kind = "json"
    /\ persistedBy.by = "create"
    /\ persistedBy.rec.name = <<66, 111>>
    /\ Len(contacts) = 2
    /\ contacts[1] = persistedBy.rec

\* C6: update(id, draft) for an id present in the in-memory list replaces
\* the record and persists the full snapshot, in every reachable state: once
\* handleUpdate has read storage for an id the list on screen holds, the
\* write of a snapshot that holds the draft is under way.
C6_UpdatePersistsEverywhere ==
    [][\A op \in BagToSet(inflight) :
          (UpdRead(op) /\ findIndex(contacts, op.id) # 0)
             => \E w \in BagToSet(inflight') :
                   /\ w.k = "updWrite"
                   /\ w.id = op.id
                   /\ w.val.kind = "json"
                   /\ \E i \in DOMAIN parse(w.val) : parse(w.val)[i] = op.draft]_vars

\* C7: load never raises: when the storage key is absent or its value does
\* not parse, the in-memory list becomes the bundled default dataset.
C7_LoadFallsBackToDefault ==
    [][\A op \in BagToSet(inflight) :
          (LoadDone(op) /\ storage.kind # "json")
             => contacts' = initialContactsData]_vars

\* C8: in every reachable state no two records of the contact list have the
\* same id, also after two creates between which the clock reading does not
\* advance.
C8_IdsUnique ==
    \A i, j \in DOMAIN contacts : i # j => contacts[i].id # contacts[j].id

\* Save is pressed on the add form of V3.
PressSaveV3 == SaveInvalid \/ \E now \in Epoch..(Epoch + MaxTicks) : SaveCreate(now)

\* Save is pressed on the form of V2 while it adds a contact.
PressSaveNewV2 ==
    /\ ~isEditingMyProfile
    /\ orEmpty(editingItem.id) = <<>>
    /\ handleSaveRejected \/ \E now \in Epoch..(Epoch + MaxTicks) : handleSaveCreate(now)

\* C9: create with an empty name or an empty phone (or an empty email, in
\* V2, which requires the email) fails with a validation error and blocks
\* the mutation entirely: the in-memory list and the persisted snapshot are
\* unchanged, and no write is issued.
C9_InvalidCreateBlocked ==
    [][/\ (PressSaveV3 /\ (form.name = <<>> \/ form.phone = <<>>))
            => /\ alert'.kind = "validationError"
               /\ contacts' = contacts
               /\ storage' = storage
               /\ inflight' = inflight
       /\ (PressSaveNewV2 /\ (form.name = <<>> \/ form.phone = <<>> \/ form.email = <<>>))
            => /\ alert'.kind = "validationError"
               /\ contacts' = contacts
               /\ myProfile' = myProfile]_vars

\* C9 witness: Save was pressed on the add form of V3 with a name and no
\* phone, and the validation alert is up with the list as loaded.
C9_Witness ==
    /\ IsV3
    /\ alert.kind = "validationError"
    /\ modalVisible
    /\ form.name = <<66, 111>>
    /\ form.phone = <<>>
    /\ contacts = initialContactsData

\* C10: in every reachable state every contact in the store (the list in
\* memory and the stored snapshot) has a non-empty name: an update whose
\* draft has an empty name is rejected.
C10_NamesNonEmpty ==
    /\ \A i \in DOMAIN contacts : contacts[i].name # <<>>
    /\ storage.kind = "json" =>
          \A i \in DOMAIN parse(storage) : parse(storage)[i].name # <<>>

\* C11: delete(id) with an id that is not in the contact set fails and
\* leaves the store as it was: when Delete is confirmed for an id that the
\* list in memory does not hold, no record is removed, no snapshot write is
\* issued and no success is reported.
C11_DeleteUnknownIdRejected ==
    [][((ConfirmDelete \/ confirmDeleteConfirmation) /\ findIndex(contacts, alert.id) = 0)
          => /\ contacts' = contacts
             /\ inflight' = inflight
             /\ alert'.kind # "success"]_vars

\* C12: update(id, draft) with an id that is absent from the stored set
\* fails with NotFoundError: no snapshot is written, and the failure is
\* shown at once as a not-found notification, not silently ignored.
C12_UpdateUnknownIdSurfaced ==
    [][\A op \in BagToSet(inflight) :
          (UpdRead(op) /\ storage.kind = "json" /\ findIndex(parse(storage), op.id) = 0)
             => /\ storage' = storage
                /\ \A w \in BagToSet(inflight') : w.k = "updWrite" => BagIn(w, inflight)
                /\ alert'.kind = "notFound"]_vars

\* The records of a list that have the id.
WithId(list, id) == {i \in DOMAIN list : list[i].id = id}

\* C13: update(id, draft) preserves the id of the record and, the edit form
\* giving no way to enter an avatar, its original avatar: the snapshot
\* handleUpdate writes (V3) and the list handleSaveContact sets (V2) have,
\* at the place of the updated record, a record with the same id and the
\* same avatar as before, whatever was typed into the form.
C13_UpdateKeepsIdAndAvatar ==
    [][/\ \A op \in BagToSet(inflight) :
            (UpdRead(op) /\ storage.kind = "json" /\ findIndex(parse(storage), op.id) # 0)
               => \E w \in BagToSet(inflight') :
                     /\ w.k = "updWrite" /\ w.draft = op.draft /\ w.val.kind = "json"
                     /\ LET before == parse(storage)
                            after  == parse(w.val)
                            index  == findIndex(before, op.id)
                        IN /\ DOMAIN after = DOMAIN before
                           /\ after[index].id = before[index].id
                           /\ after[index].avatar = before[index].avatar
                           /\ after[index].name = op.draft.name
       /\ handleSaveUpdate
            => /\ DOMAIN contacts' = DOMAIN contacts
               /\ WithId(contacts, editingItem.id) # {}
               /\ \A i \in DOMAIN contacts :
                     /\ contacts'[i].id = contacts[i].id
                     /\ contacts'[i].avatar = contacts[i].avatar
                     /\ i \in WithId(contacts, editingItem.id)
                           => contacts'[i].name = trim(form.name)]_vars

\* C13 witness: the stored snapshot holds the created contact "Bo" after an
\* update cleared its name, still with the id and the avatar it was created
\* with.
C13_Witness ==
    /\ IsV3
    /\ storage.kind = "json"
    /\ \E i \in DOMAIN parse(storage) :
          /\ parse(storage)[i].name = <<>>
          /\ parse(storage)[i].id = DecimalString(Epoch)
          /\ parse(storage)[i].avatar = uiAvatar(<<66, 111>>)

\* C14: every successful mutating call triggers exactly one full-snapshot
\* write, of the complete list after the mutation, in every variant that
\* offers create, update and delete: a step that changes the list in memory
\* (other than loadData setting it) issues exactly one setItem, whose value
\* is the new list.
C14_OneSnapshotWritePerMutation ==
    [][(contacts' # contacts /\ ~(\E op \in BagToSet(inflight) : LoadDone(op)))
          => /\ BagCardinality(inflight') = BagCardinality(inflight) + 1
             /\ \E w \in BagToSet(inflight') :
                   /\ w.k = "sync"
                   /\ CopiesIn(w, inflight') = CopiesIn(w, inflight) + 1
                   /\ w.val = stringify(contacts')]_vars

\* The records of a list, as a set.
Range(list) == {list[i] : i \in DOMAIN list}

\* C15: a failed persistence write does not roll back the in-memory change:
\* once the write of a create has failed, the created record stays in the
\* list in memory in every later state (until the user deletes a contact),
\* also after the user goes to the detail screen and back.
C15_FailedWriteKeepsChange ==
    [][(/\ persistedBy.failed.by = "create"
        /\ persistedBy.failed.rec \in Range(contacts)
        /\ ~ConfirmDelete)
          => persistedBy.failed.rec \in Range(contacts')]_vars

\* The writes a step issues: the setItem calls in flight after it that were
\* not in flight before it.
IssuedWrites ==
    {w \in BagToSet(inflight') :
        /\ w.k \in {"sync", "updWrite"}
        /\ CopiesIn(w, inflight') > CopiesIn(w, inflight)}

\* C16: for every mutating operation (create, update, delete) the in-memory
\* transition does not wait for the persistence write: when the write is
\* issued, the list in memory already reflects the mutation (a created or
\* deleted record for syncStorage, the draft for handleUpdate).
C16_MemoryAheadOfWrite ==
    [][\A w \in IssuedWrites :
          /\ w.k = "sync" => stringify(contacts') = w.val
          /\ w.k = "updWrite" => w.draft \in Range(contacts')]_vars

\* C17: a contact is removed only after the user confirms the delete, on
\* every path that deletes a contact (swipe action and form button): a step
\* by which the list in memory loses a record (other than loadData setting
\* it) is the Delete button of a confirmation on display.
C17_DeleteOnlyAfterConfirm ==
    [][(Len(contacts') < Len(contacts) /\ ~(\E op \in BagToSet(inflight) : LoadDone(op)))
          => alert.kind = "deleteConfirm"]_vars

\* The members of the alphabetical sections V2 shows with no search text.
SectionMembers == Range(Flatten(groupContactsByLetter(filteredContacts(contacts, <<>>))))

\* C18: in V2, after any sequence of add, edit, delete and profile-edit
\* operations the profile record still exists with id 'my-profile', no
\* delete removes it, and it is never a member of an alphabetical section;
\* editing the profile changes no ordinary contact and editing a contact
\* does not change the profile.
C18_ProfilePinned ==
    [][IsV2 =>
          /\ myProfile.id = MyProfileId /\ myProfile'.id = MyProfileId
          /\ \A c \in SectionMembers : c.id # MyProfileId /\ c.ref # myProfile.ref
          /\ myProfile' # myProfile => contacts' = contacts
          /\ contacts' # contacts => myProfile' = myProfile]_vars

\* C18 witness: the profile was edited (its name is the typed "Bo") and the
\* bundled contact was deleted; the profile is still there.
C18_Witness ==
    /\ IsV2
    /\ myProfile.name = <<66, 111>>
    /\ myProfile.id = MyProfileId
    /\ contacts = <<>>
    /\ mutations = 2

\* C19: if two mutations are issued before the write of the first one
\* completes, the persisted snapshot is the value of whichever write
\* finishes last; no write is merged with or blocked by another: each
\* setItem that completes leaves its own value under the key, whatever was
\* there, and every other call in flight stays in flight.
C19_LastWriteWins ==
    [][\A op \in BagToSet(inflight) :
          (SyncDone(op) \/ UpdWriteDone(op))
             => /\ storage' = op.val
                /\ \A w \in BagToSet(inflight) :
                      w # op => (BagIn(w, inflight') \/ BagIn(Orphan(w), inflight'))]_vars

\* C19 witness: "Bo" was added and then the bundled contact deleted while
\* the write of the add was pending; the write of the delete finished first
\* and the write of the add last, no write failed: the stored snapshot is the
\* one of the add, with the deleted contact in it.
C19_Witness ==
    /\ IsV3
    /\ inflight = EmptyBag
    /\ listOrigin = "memory"
    /\ mutations = 2
    /\ persistedBy.by = "create"
    /\ persistedBy.failed.by = "none"
    /\ Len(contacts) = 1
    /\ storage = stringify(<<contacts[1]>> \o initialContactsData)

\* The ids of the records of a list.
Ids(list) == {list[i].id : i \in DOMAIN list}

\* C20: a successful create increases the contact list by exactly one
\* record, leaves every existing record unchanged, and the new record has an
\* id distinct from every id already in the list and a non-empty avatar
\* (the new record is put first by V3 and last by V2).
C20_CreateAddsOneFreshRecord ==
    [][/\ (\E now \in Epoch..(Epoch + MaxTicks) : SaveCreate(now))
            => /\ Len(contacts') = Len(contacts) + 1
               /\ Tail(contacts') = contacts
               /\ contacts'[1].id \notin Ids(contacts)
               /\ contacts'[1].avatar \notin {Absent, <<>>}
       /\ (\E now \in Epoch..(Epoch + MaxTicks) : handleSaveCreate(now))
            => /\ Len(contacts') = Len(contacts) + 1
               /\ SubSeq(contacts', 1, Len(contacts)) = contacts
               /\ contacts'[Len(contacts')].id \notin Ids(contacts)
               /\ contacts'[Len(contacts')].avatar \notin {Absent, <<>>}]_vars

----------------------------------------------------------------------------
(* Claims about the '#' section and the counter badge *)

\* C21: a contact whose name is empty is placed by the grouper in the
\* section titled '#', in every variant of the grouper.
C21_EmptyNameInHashSection ==
    pOp \in GroupOps =>
        \A i \in DOMAIN pIn :
            pIn[i].name = <<>> =>
                \E k \in DOMAIN pOut :
                    /\ pOut[k].title = HashKey
                    /\ pIn[i] \in Range(pOut[k].data)

\* {filtered.length} of the counter badge: the number of contacts the search
\* lets through.
counterBadge(filteredList) == Len(filteredList)

\* contactSections.reduce((acc, section) => acc + section.data.length, 0)
\* of the earliest header.
RECURSIVE headerCount(_)
headerCount(contactSections) ==
    IF contactSections = <<>> THEN 0
    ELSE Len(contactSections[1].data) + headerCount(Tail(contactSections))

\* C22: the header counter shows the total number of contacts of the store
\* in every state, also while a non-empty search text is active.
C22_BadgeShowsTotal ==
    /\ pOp = "filterV3" => counterBadge(pOut) = Len(pIn)
    /\ pOp = "filterV1" => headerCount(groupContactsByLetterV1(pOut)) = Len(pIn)

----------------------------------------------------------------------------
(* Claims about delete and create *)

\* C23: a delete of an id that is in the contact list removes exactly the
\* records with that id: every other record stays, unchanged and in the same
\* relative order, and the snapshot written is the resulting list.
C23_DeleteRemovesExactlyThatId ==
    [][/\ (ConfirmDelete /\ findIndex(contacts, alert.id) # 0)
            => /\ contacts' = withoutId(contacts, alert.id)
               /\ \E w \in IssuedWrites :
                     w.k = "sync" /\ w.val = stringify(contacts')
       /\ (confirmDeleteConfirmation /\ findIndex(contacts, alert.id) # 0)
            => contacts' = withoutId(contacts, alert.id)
       /\ \A i \in DOMAIN contacts :
            handleDeleteContact(i) => contacts' = withoutId(contacts, contacts[i].id)]_vars

\* Names a user may have entered in the add form: "Bo", "al".
EnteredNames == { <<66, 111>>, <<97, 108>> }

\* C24: on create, the avatar of the new record is determined by its new id
\* alone (the same whatever name was entered), and the record is appended at
\* the end of the in-memory list.
C24_AvatarFromIdAppended ==
    [][/\ \A now \in Epoch..(Epoch + MaxTicks) :
            SaveCreate(now) =>
                /\ contacts' = Append(contacts, newC(form, now))
                /\ \A n \in EnteredNames :
                      newC([form EXCEPT !.name = n], now).avatar = newC(form, now).avatar
       /\ \A now \in Epoch..(Epoch + MaxTicks) :
            handleSaveCreate(now) =>
                LET made == contacts'[Len(contacts')]
                IN  /\ contacts' = Append(contacts, made)
                    /\ \A n \in EnteredNames :
                          newContact(updatedData(editingItem, [form EXCEPT !.name = n],
                                                 FALSE, freshRef), now).avatar = made.avatar
                    /\ made.avatar = pravatar(made.id)]_vars

----------------------------------------------------------------------------
(* Claims about the forms *)

\* C25: in the version with a title, Save Changes on the edit form of an
\* ordinary contact replaces name, title, phone and email of the contact
\* with the entered values, and a contact added without a title gets the
\* title 'Colleague'.
C25_EditReplacesShownFields ==
    [][/\ handleSaveUpdate =>
            \A i \in WithId(contacts, editingItem.id) :
                /\ contacts'[i].name = trim(form.name)
                /\ orEmpty(contacts'[i].title) = trim(form.title)
                /\ contacts'[i].phone = trim(form.phone)
                /\ contacts'[i].email = trim(form.email)
       /\ \A now \in Epoch..(Epoch + MaxTicks) :
            (handleSaveCreate(now) /\ trim(form.title) = <<>>)
                => contacts'[Len(contacts')].title = Colleague]_vars

----------------------------------------------------------------------------
(* Claims about reloads and concurrent storage calls *)

\* The drafts a detail-screen update may write: a record of the bundled
\* dataset or one made by the add modal, as it is or with what the edit
\* modal types.
Drafts ==
    LET typedForms == { [name |-> n, phone |-> p, email |-> <<>>] :
                           n \in TypedText.name, p \in TypedText.phone }
        made == Range(initialContactsData)
                  \cup { newC(f, now) : f \in typedForms, now \in Epoch..(Epoch + MaxTicks) }
    IN  made \cup { [c EXCEPT !.name = n] : c \in made, n \in TypedEdit.name }

\* The write of a detail-screen update of draft has landed last, the home
\* screen has regained focus and its reload is pending.
UpdateLandedReloadPending(draft) ==
    /\ IsV3
    /\ persistedBy.by = "update" /\ persistedBy.rec = draft
    /\ screen = "home"
    /\ BagIn(LoadOp, inflight)

\* The home list is the persisted snapshot and shows the updated record.
HomeShowsUpdate(draft) ==
    /\ storage.kind = "json"
    /\ contacts = parse(storage)
    /\ draft \in Range(contacts)

\* C26: the home screen reloads from storage when it regains focus: after a
\* detail-screen update has completed and navigated back, the home list
\* eventually equals the persisted snapshot and shows the updated record.
C26_ReloadShowsUpdate ==
    \A draft \in Drafts : UpdateLandedReloadPending(draft) ~> HomeShowsUpdate(draft)

\* C27: quiescent consistency: in every reachable state in which a mutation
\* has been persisted, no storage call is pending and no write has failed,
\* the stored snapshot is the in-memory list of the home screen.
C27_QuiescentConsistency ==
    (/\ IsV3
     /\ persistedBy.by # "none"
     /\ persistedBy.failed.by = "none"
     /\ inflight = EmptyBag)
        => storage = stringify(contacts)

\* C28: no committed mutation is lost to another: once the write of a
\* detail-screen update and the write of a home-screen create or confirmed
\* delete of another contact have both landed, the stored snapshot reflects
\* both.  persistedBy describes the write that landed before this one.
C28_NoLostMutation ==
    [][\A op \in BagToSet(inflight) :
          /\ (/\ SyncDone(op)
              /\ persistedBy.by = "update"
              /\ op.by \in {"create", "delete"}
              /\ op.rec.id # persistedBy.rec.id
              /\ persistedBy.rec.id \in Ids(parse(op.val)))
                => /\ persistedBy.rec \in Range(parse(storage'))
                   /\ op.by = "create" => op.rec \in Range(parse(storage'))
                   /\ op.by = "delete" => op.rec.id \notin Ids(parse(storage'))
          /\ (/\ UpdWriteDone(op)
              /\ persistedBy.by \in {"create", "delete"}
              /\ persistedBy.rec.id # op.id)
                => /\ op.draft \in Range(parse(storage'))
                   /\ persistedBy.by = "create" => persistedBy.rec \in Range(parse(storage'))
                   /\ persistedBy.by = "delete"
                         => persistedBy.rec.id \notin Ids(parse(storage'))]_vars

----------------------------------------------------------------------------
(* Claims about stale form state *)

\* C29: Save in an add form that has just been opened, with nothing typed
\* since, never creates a contact, after any earlier adds and cancels: the
\* draft the Save handler would validate right after the form is opened is
\* one it rejects.
C29_FreshAddFormDoesNotSave ==
    [][/\ OpenAddModal => formInvalid(form')
       /\ openAddContactModal => handleSaveInvalid(form')]_vars

\* C30: each time the edit form is opened for a contact, its draft starts
\* equal to the field values of that contact: text typed in an earlier edit
\* of the same contact that was cancelled is discarded.
C30_EditFormStartsFromContact ==
    [][/\ OpenEdit => editForm' = dContact
       /\ \A i \in DOMAIN contacts :
            openEditModal(i) => form' = resetFields(contacts[i])]_vars

============================================================================
